---------------------------- MODULE Spec2Model ----------------------------
(***************************************************************************)
(* The per-node VMI metrics collector of KubeVirt (package prometheus):    *)
(* Collector.Collect, the bounded scrape scheduler it hands the socket map *)
(* to, prometheusScraper.Scrape / Report, and the translation of domain    *)
(* statistics into metric samples (updateMemory, updateVcpu, updateBlock,  *)
(* updateNetwork, updateVMIsPhase, updateVersion).                         *)
(*                                                                         *)
(* Strings that the code transforms (metadata keys, phases) are sequences  *)
(* of one-character strings, so that labelFormatter.Replace and            *)
(* strings.ToLower are computed character by character.  A label name is   *)
(* the record [prefix, key]: the string prefix followed by the characters  *)
(* of key.  Time is counted in seconds.                                    *)
(***************************************************************************)
EXTENDS Integers, Sequences, FiniteSets, Bags, TLC

\* ------------------------------------------------------------------ bounds

\* largest number of VMIs the directory lists on the node
MaxVMIs == 2
\* largest configured MaxRequestsInFlight
MaxInFlight == 2
\* the overall scrape deadline handed to the scheduler, in seconds
collectionTimeout == 2

\* the "+ 2*time.Second" of statsMaxAge
StalenessMargin == 2

\* const statsMaxAge time.Duration = collectionTimeout + 2*time.Second
statsMaxAge_NoMargin == collectionTimeout
statsMaxAge == collectionTimeout + StalenessMargin

\* every elapsed time above statsMaxAge is read the same way by the code
ClockCap == statsMaxAge + 1

\* the Collect invocations that can be in progress at once
Cycles == {1, 2}

\* ----------------------------------------------------------------- strings

Min(a, b) == IF a < b THEN a ELSE b

SeqToSet(s) == {s[i] : i \in DOMAIN s}

\* all orders in which a Go `range` can traverse a map with key set S
Orders(S) ==
  {o \in [1..Cardinality(S) -> S] : \A i, j \in 1..Cardinality(S) : i # j => o[i] # o[j]}

\* labelFormatter = strings.NewReplacer(".", "_", "/", "_", "-", "_")
labelFormatter_KeepsDash(key) ==
  [i \in DOMAIN key |-> IF key[i] \in {".", "/"} THEN "_" ELSE key[i]]
labelFormatter(key) ==
  [i \in DOMAIN key |-> IF key[i] \in {".", "/", "-"} THEN "_" ELSE key[i]]

labelPreffix == "vmi_k8s_label_"
annotationPreffix == "vmi_k8s_annotation_"

\* a fixed label name such as "node"
L(s) == [prefix |-> s, key |-> <<>>]

LowerChar(ch) ==
  CASE ch = "R" -> "r"
    [] ch = "F" -> "f"
    [] ch = "P" -> "p"
    [] ch = "S" -> "s"
    [] OTHER -> ch

\* strings.ToLower
ToLower(s) == [i \in DOMAIN s |-> LowerChar(s[i])]


\* -------------------------------------------------- descriptors and samples

\* prometheus.NewDesc: the descriptor keeps the label names it is given and
\* records an error when two of them are equal ("duplicate label names")
NewDesc(fqName, variableLabels) ==
  [fqName |-> fqName,
   variableLabels |-> variableLabels,
   err |-> \E i, j \in DOMAIN variableLabels : i # j /\ variableLabels[i] = variableLabels[j]]

\* prometheus.NewConstMetric: an error when the descriptor carries one or when
\* the number of label values differs from the number of label names
ConstMetricErr(desc, labelValues) ==
  desc.err \/ Len(labelValues) # Len(desc.variableLabels)

NewConstMetric(desc, kind, value, labelValues) ==
  [name |-> desc.fqName, labels |-> desc.variableLabels, kind |-> kind,
   value |-> value, values |-> labelValues]

\* the package-level label-name variables and their initial values
BaseLabels(labelVar) ==
  CASE labelVar \in {"storageIopsLabels", "storageTrafficLabels", "storageTimesLabels"} ->
         <<L("node"), L("namespace"), L("name"), L("drive"), L("type")>>
    [] labelVar = "vcpuUsageLabels" ->
         <<L("node"), L("namespace"), L("name"), L("id"), L("state")>>
    [] labelVar \in {"networkTrafficBytesLabels", "networkTrafficPktsLabels", "networkErrorsLabels"} ->
         <<L("node"), L("namespace"), L("name"), L("interface"), L("type")>>
    [] labelVar \in {"memoryAvailableLabels", "memoryResidentLabels"} ->
         <<L("node"), L("namespace"), L("name")>>
    [] labelVar = "swapTrafficLabels" ->
         <<L("node"), L("namespace"), L("name"), L("type")>>

\* the package-level descriptor variables the update functions reassign
DescVars ==
  {"storageIopsDesc", "storageTrafficDesc", "storageTimesDesc", "vcpuUsageDesc",
   "networkTrafficBytesDesc", "networkTrafficPktsDesc", "networkErrorsDesc",
   "memoryAvailableDesc", "memoryResidentDesc", "swapTrafficDesc"}

LabelVarOf(descVar) ==
  CASE descVar = "storageIopsDesc" -> "storageIopsLabels"
    [] descVar = "storageTrafficDesc" -> "storageTrafficLabels"
    [] descVar = "storageTimesDesc" -> "storageTimesLabels"
    [] descVar = "vcpuUsageDesc" -> "vcpuUsageLabels"
    [] descVar = "networkTrafficBytesDesc" -> "networkTrafficBytesLabels"
    [] descVar = "networkTrafficPktsDesc" -> "networkTrafficPktsLabels"
    [] descVar = "networkErrorsDesc" -> "networkErrorsLabels"
    [] descVar = "memoryAvailableDesc" -> "memoryAvailableLabels"
    [] descVar = "memoryResidentDesc" -> "memoryResidentLabels"
    [] descVar = "swapTrafficDesc" -> "swapTrafficLabels"

LabelVars == {LabelVarOf(d) : d \in DescVars}

FqName(descVar) ==
  CASE descVar = "storageIopsDesc" -> "kubevirt_vmi_storage_iops_total"
    [] descVar = "storageTrafficDesc" -> "kubevirt_vmi_storage_traffic_bytes_total"
    [] descVar = "storageTimesDesc" -> "kubevirt_vmi_storage_times_ms_total"
    [] descVar = "vcpuUsageDesc" -> "kubevirt_vmi_vcpu_seconds"
    [] descVar = "networkTrafficBytesDesc" -> "kubevirt_vmi_network_traffic_bytes_total"
    [] descVar = "networkTrafficPktsDesc" -> "kubevirt_vmi_network_traffic_packets_total"
    [] descVar = "networkErrorsDesc" -> "kubevirt_vmi_network_errors_total"
    [] descVar = "memoryAvailableDesc" -> "kubevirt_vmi_memory_available_bytes"
    [] descVar = "memoryResidentDesc" -> "kubevirt_vmi_memory_resident_bytes"
    [] descVar = "swapTrafficDesc" -> "kubevirt_vmi_memory_swap_traffic_bytes_total"

versionDesc == NewDesc("kubevirt_info", <<L("goversion"), L("kubeversion")>>)

vmiCountDesc == NewDesc("kubevirt_vmi_phase_count", <<L("node"), L("phase")>>)

\* the descriptor variables each update function rebuilds
GroupDescs(group) ==
  CASE group = "memory" -> {"memoryResidentDesc", "memoryAvailableDesc", "swapTrafficDesc"}
    [] group = "vcpu" -> {"vcpuUsageDesc"}
    [] group = "block" -> {"storageIopsDesc", "storageTrafficDesc", "storageTimesDesc"}
    [] group = "net" -> {"networkTrafficBytesDesc", "networkTrafficPktsDesc", "networkErrorsDesc"}

\* ------------------------------------------------- dynamic labels of a VMI

\* the names the two `range` loops append, labels in the order lo and then
\* annotations in the order ao
DynamicNames(lo, ao) ==
  [i \in DOMAIN lo |-> [prefix |-> labelPreffix, key |-> labelFormatter(lo[i])]]
  \o [i \in DOMAIN ao |-> [prefix |-> annotationPreffix, key |-> labelFormatter(ao[i])]]

\* the values the same loops append
DynamicValues(vmi, lo, ao) ==
  [i \in DOMAIN lo |-> vmi.labels[lo[i]]] \o [i \in DOMAIN ao |-> vmi.annotations[ao[i]]]

\* a value list the loops extend with `x = append(x, val)`
AppendOwn(own, dyn) == own \o dyn

\* a value list the loops extend with `w = append(r, val)`, run right after
\* `r = append(r, val)`: r and w after the first k values of dyn
RECURSIVE AppendLoop(_, _, _, _)
AppendLoop(r, w, dyn, k) ==
  IF k > Len(dyn) THEN [r |-> r, w |-> w]
  ELSE AppendLoop(Append(r, dyn[k]), Append(Append(r, dyn[k]), dyn[k]), dyn, k + 1)

AppendFromOther(own, other, dyn) == AppendLoop(other, own, dyn, 1).w

\* the label values of the sample an emit instruction builds
storageIopsWriteLabelsValues(ins, dyn) == AppendFromOther(ins.base, ins.other, dyn)

LocalLabelValues(ins, dyn) ==
  IF ins.var = "storageIopsWriteLabelsValues"
  THEN storageIopsWriteLabelsValues(ins, dyn)
  ELSE AppendOwn(ins.base, dyn)

\* ------------------------------------------------------ the Report program

\* Report runs updateMemory, updateVcpu, updateBlock and updateNetwork.  For
\* given statistics the statements that touch shared state form a fixed
\* sequence of instructions:
\*   labels  the loops that reset and extend the package-level label lists
\*           of one update function (or of one device of it)
\*   desc    the NewDesc calls that reassign its package-level descriptors
\*   emit    one NewConstMetric on a package-level descriptor, followed by
\*           tryToPushMetric
Labels(group) ==
  [op |-> "labels", group |-> group, desc |-> "", kind |-> "", value |-> 0,
   var |-> "", base |-> <<>>, other |-> <<>>, field |-> "", dev |-> ""]

Desc(group) ==
  [op |-> "desc", group |-> group, desc |-> "", kind |-> "", value |-> 0,
   var |-> "", base |-> <<>>, other |-> <<>>, field |-> "", dev |-> ""]

\* the sample for the statistics field `field` of the device dev: descriptor
\* variable, value, and the local value list var with its initial literal base
Emit(group, descVar, kind, value, var, base, field, dev) ==
  [op |-> "emit", group |-> group, desc |-> descVar, kind |-> kind, value |-> value,
   var |-> var, base |-> base, other |-> base, field |-> field, dev |-> dev]

When(cond, ins) == IF cond THEN <<ins>> ELSE <<>>

VmiValues(vmi) == <<vmi.nodeName, vmi.namespace, vmi.name>>

\* updateMemory: the libvirt values are in KiB
updateMemory_NoConversion(vmi, vmStats) ==
  LET m == vmStats.Memory
      v == VmiValues(vmi)
  IN <<Labels("memory"), Desc("memory")>>
     \o When(m.RSSSet, Emit("memory", "memoryResidentDesc", "gauge", m.RSS,
                            "memoryResidentLabelValues", v, "RSS", ""))
     \o When(m.AvailableSet, Emit("memory", "memoryAvailableDesc", "gauge", m.Available,
                                  "memoryAvailableLabelsValues", v, "Available", ""))
     \o When(m.SwapInSet, Emit("memory", "swapTrafficDesc", "gauge", m.SwapIn,
                               "swapTrafficInLabelsValues", v \o <<"in">>, "SwapIn", ""))
     \o When(m.SwapOutSet, Emit("memory", "swapTrafficDesc", "gauge", m.SwapOut,
                                "swapTrafficOutLabelsValues", v \o <<"out">>, "SwapOut", ""))
updateMemory(vmi, vmStats) ==
  LET m == vmStats.Memory
      v == VmiValues(vmi)
  IN <<Labels("memory"), Desc("memory")>>
     \o When(m.RSSSet, Emit("memory", "memoryResidentDesc", "gauge", m.RSS * 1024,
                            "memoryResidentLabelValues", v, "RSS", ""))
     \o When(m.AvailableSet, Emit("memory", "memoryAvailableDesc", "gauge", m.Available * 1024,
                                  "memoryAvailableLabelsValues", v, "Available", ""))
     \o When(m.SwapInSet, Emit("memory", "swapTrafficDesc", "gauge", m.SwapIn * 1024,
                               "swapTrafficInLabelsValues", v \o <<"in">>, "SwapIn", ""))
     \o When(m.SwapOutSet, Emit("memory", "swapTrafficDesc", "gauge", m.SwapOut * 1024,
                                "swapTrafficOutLabelsValues", v \o <<"out">>, "SwapOut", ""))

\* updateVcpu: one pass of the loop for the vcpu at position k (vcpuId k - 1)
updateVcpuOne_TimeOnly(vmi, vcpu, k) ==
  <<Labels("vcpu"), Desc("vcpu")>>
  \o When(vcpu.TimeSet,
          Emit("vcpu", "vcpuUsageDesc", "gauge", vcpu.Time \div 1000000000,
               "vcpuUsageLabelsValues",
               VmiValues(vmi) \o <<ToString(k - 1), ToString(vcpu.State)>>,
               "Time", ToString(k - 1)))
updateVcpuOne(vmi, vcpu, k) ==
  <<Labels("vcpu"), Desc("vcpu")>>
  \o When(vcpu.StateSet /\ vcpu.TimeSet,
          Emit("vcpu", "vcpuUsageDesc", "gauge", vcpu.Time \div 1000000000,
               "vcpuUsageLabelsValues",
               VmiValues(vmi) \o <<ToString(k - 1), ToString(vcpu.State)>>,
               "Time", ToString(k - 1)))

\* the Emit of one block counter
BlockEmit(descVar, block, field, var, base) ==
  Emit("block", descVar, "counter", block[field], var, base, field, block.Name)

\* updateBlock: one pass of the loop for one block device
updateBlockOne_IgnoresName(vmi, block) ==
  LET rd == VmiValues(vmi) \o <<block.Name, "read">>
      wr == VmiValues(vmi) \o <<block.Name, "write">>
  IN <<Labels("block"), Desc("block")>>
     \o (IF FALSE THEN <<>>
         ELSE When(block.RdReqsSet,
                   BlockEmit("storageIopsDesc", block, "RdReqs", "storageIopsReadLabelsValues", rd))
           \o When(block.WrReqsSet,
                   [BlockEmit("storageIopsDesc", block, "WrReqs",
                              "storageIopsWriteLabelsValues", wr) EXCEPT !.other = rd])
           \o When(block.RdBytesSet,
                   BlockEmit("storageTrafficDesc", block, "RdBytes",
                             "storageTrafficReadLabelsValues", rd))
           \o When(block.WrBytesSet,
                   BlockEmit("storageTrafficDesc", block, "WrBytes",
                             "storageTrafficWriteLabelsValues", wr))
           \o When(block.RdTimesSet,
                   BlockEmit("storageTimesDesc", block, "RdTimes",
                             "storageTimesReadLabelsValues", rd))
           \o When(block.WrTimesSet,
                   BlockEmit("storageTimesDesc", block, "WrTimes",
                             "storageTimesWriteLabelsValues", wr)))
updateBlockOne(vmi, block) ==
  LET rd == VmiValues(vmi) \o <<block.Name, "read">>
      wr == VmiValues(vmi) \o <<block.Name, "write">>
  IN <<Labels("block"), Desc("block")>>
     \o (IF ~block.NameSet THEN <<>>
         ELSE When(block.RdReqsSet,
                   BlockEmit("storageIopsDesc", block, "RdReqs", "storageIopsReadLabelsValues", rd))
           \o When(block.WrReqsSet,
                   [BlockEmit("storageIopsDesc", block, "WrReqs",
                              "storageIopsWriteLabelsValues", wr) EXCEPT !.other = rd])
           \o When(block.RdBytesSet,
                   BlockEmit("storageTrafficDesc", block, "RdBytes",
                             "storageTrafficReadLabelsValues", rd))
           \o When(block.WrBytesSet,
                   BlockEmit("storageTrafficDesc", block, "WrBytes",
                             "storageTrafficWriteLabelsValues", wr))
           \o When(block.RdTimesSet,
                   BlockEmit("storageTimesDesc", block, "RdTimes",
                             "storageTimesReadLabelsValues", rd))
           \o When(block.WrTimesSet,
                   BlockEmit("storageTimesDesc", block, "WrTimes",
                             "storageTimesWriteLabelsValues", wr)))

\* the Emit of one interface counter
NetEmit(descVar, net, field, var, base) ==
  Emit("net", descVar, "counter", net[field], var, base, field, net.Name)

\* updateNetwork: one pass of the loop for one interface
updateNetworkOne(vmi, net) ==
  LET rx == VmiValues(vmi) \o <<net.Name, "rx">>
      tx == VmiValues(vmi) \o <<net.Name, "tx">>
  IN <<Labels("net"), Desc("net")>>
     \o (IF ~net.NameSet THEN <<>>
         ELSE When(net.RxBytesSet,
                   NetEmit("networkTrafficBytesDesc", net, "RxBytes",
                           "networkTrafficBytesRxLabelsValues", rx))
           \o When(net.RxPktsSet,
                   NetEmit("networkTrafficPktsDesc", net, "RxPkts",
                           "networkTrafficPktsRxLabelsValues", rx))
           \o When(net.RxErrsSet,
                   NetEmit("networkErrorsDesc", net, "RxErrs",
                           "networkErrorsRxLabelsValues", rx))
           \o When(net.TxBytesSet,
                   NetEmit("networkTrafficBytesDesc", net, "TxBytes",
                           "networkTrafficBytesTxLabelsValues", tx))
           \o When(net.TxPktsSet,
                   NetEmit("networkTrafficPktsDesc", net, "TxPkts",
                           "networkTrafficPktsTxLabelsValues", tx))
           \o When(net.TxErrsSet,
                   NetEmit("networkErrorsDesc", net, "TxErrs",
                           "networkErrorsTxLabelsValues", tx)))

RECURSIVE updateVcpu(_, _, _)
updateVcpu(vmi, vcpus, k) ==
  IF k > Len(vcpus) THEN <<>>
  ELSE updateVcpuOne(vmi, vcpus[k], k) \o updateVcpu(vmi, vcpus, k + 1)

RECURSIVE updateBlock(_, _, _)
updateBlock(vmi, blocks, k) ==
  IF k > Len(blocks) THEN <<>>
  ELSE updateBlockOne(vmi, blocks[k]) \o updateBlock(vmi, blocks, k + 1)

RECURSIVE updateNetwork(_, _, _)
updateNetwork(vmi, nets, k) ==
  IF k > Len(nets) THEN <<>>
  ELSE updateNetworkOne(vmi, nets[k]) \o updateNetwork(vmi, nets, k + 1)

\* the body of prometheusScraper.Report
ReportProgram(vmi, vmStats) ==
  updateMemory(vmi, vmStats)
  \o updateVcpu(vmi, vmStats.Vcpu, 1)
  \o updateBlock(vmi, vmStats.Block, 1)
  \o updateNetwork(vmi, vmStats.Net, 1)

\* ------------------------------------------------------------------ inputs

Key_a_dot_b == <<"a", ".", "b">>
Key_a_dash_b == <<"a", "-", "b">>
Key_c == <<"c">>

Running == <<"R", "u", "n", "n", "i", "n", "g">>
Failed == <<"F", "a", "i", "l", "e", "d">>

NoMeta == <<>>

VmiName(i) ==
  CASE i = 1 -> "vm-a" [] i = 2 -> "vm-b" [] i = 3 -> "vm-c" [] OTHER -> ToString(i)

\* the i-th VMI of the node: odd ones carry one metadata label, even ones none
PoolVMI(i) ==
  [name |-> VmiName(i), namespace |-> "default", nodeName |-> "node-a",
   phase |-> IF i = 2 THEN Failed ELSE Running,
   labels |-> IF i % 2 = 1 THEN (Key_a_dot_b :> "x") ELSE NoMeta,
   annotations |-> NoMeta]

\* lookup.VirtualMachinesOnNode: an error, or the VMIs scheduled on the node
\* (the first n VMIs of the node, or as many VMIs that are all Running)
DirectoryResults ==
  {[err |-> TRUE, vmis |-> <<>>]}
  \cup {[err |-> FALSE, vmis |-> [i \in 1..n |-> PoolVMI(i)]] : n \in 0..MaxVMIs}
  \cup {[err |-> FALSE, vmis |-> [i \in 1..MaxVMIs |-> [PoolVMI(i) EXCEPT !.phase = Running]]]}

Mem(rss, avail, swapIn, swapOut) ==
  [RSSSet |-> rss, RSS |-> 2048, AvailableSet |-> avail, Available |-> 4096,
   SwapInSet |-> swapIn, SwapIn |-> 3, SwapOutSet |-> swapOut, SwapOut |-> 5]

DomainStats(name, mem, vcpu, block, net) ==
  [Name |-> name, Memory |-> mem, Vcpu |-> vcpu, Block |-> block, Net |-> net]

NoStats == DomainStats("", Mem(FALSE, FALSE, FALSE, FALSE), <<>>, <<>>, <<>>)

\* cli.GetDomainStats: (vmStats, exists, err)
FetchResult(err, exists, vmStats) == [err |-> err, exists |-> exists, stats |-> vmStats]

FetchResults ==
  {FetchResult(TRUE, FALSE, NoStats),
   FetchResult(FALSE, FALSE, NoStats),
   FetchResult(FALSE, TRUE, NoStats),
   FetchResult(FALSE, TRUE, DomainStats("dom", Mem(TRUE, FALSE, FALSE, FALSE), <<>>, <<>>, <<>>)),
   FetchResult(FALSE, TRUE, DomainStats("dom", Mem(TRUE, TRUE, FALSE, FALSE), <<>>, <<>>, <<>>))}

\* a VMI with the metadata labels and annotations given
MetaVMI(labels, annotations) ==
  [name |-> "vm-a", namespace |-> "default", nodeName |-> "node-a", phase |-> Running,
   labels |-> labels, annotations |-> annotations]

\* none; one label; two labels; two labels whose keys differ only in a
\* character the formatter replaces; a label and an annotation
MetaVMIs ==
  {MetaVMI(NoMeta, NoMeta),
   MetaVMI(Key_a_dot_b :> "x", NoMeta),
   MetaVMI((Key_a_dot_b :> "x") @@ (Key_c :> "y"), NoMeta),
   MetaVMI((Key_a_dot_b :> "x") @@ (Key_a_dash_b :> "y"), NoMeta),
   MetaVMI(Key_c :> "y", Key_a_dash_b :> "z")}

\* the directory lists a single VMI
SingleVMIResults == {[err |-> FALSE, vmis |-> <<v>>] : v \in MetaVMIs}

Vcpu(stateSet, timeSet, time) ==
  [StateSet |-> stateSet, State |-> 1, TimeSet |-> timeSet, Time |-> time]

\* a block device with the counters in set flagged as set
Block(nameSet, name, set) ==
  [NameSet |-> nameSet, Name |-> name,
   RdReqsSet |-> "RdReqs" \in set, RdReqs |-> 11,
   WrReqsSet |-> "WrReqs" \in set, WrReqs |-> 12,
   RdBytesSet |-> "RdBytes" \in set, RdBytes |-> 13,
   WrBytesSet |-> "WrBytes" \in set, WrBytes |-> 14,
   RdTimesSet |-> "RdTimes" \in set, RdTimes |-> 15,
   WrTimesSet |-> "WrTimes" \in set, WrTimes |-> 16]

BlockCounters == {"RdReqs", "WrReqs", "RdBytes", "WrBytes", "RdTimes", "WrTimes"}

\* a network interface with the counters in set flagged as set
Net(nameSet, name, set) ==
  [NameSet |-> nameSet, Name |-> name,
   RxBytesSet |-> "RxBytes" \in set, RxBytes |-> 21,
   RxPktsSet |-> "RxPkts" \in set, RxPkts |-> 22,
   RxErrsSet |-> "RxErrs" \in set, RxErrs |-> 23,
   TxBytesSet |-> "TxBytes" \in set, TxBytes |-> 24,
   TxPktsSet |-> "TxPkts" \in set, TxPkts |-> 25,
   TxErrsSet |-> "TxErrs" \in set, TxErrs |-> 26]

NetCounters == {"RxBytes", "RxPkts", "RxErrs", "TxBytes", "TxPkts", "TxErrs"}

\* no counter, one counter, all counters
FlagSets(counters) == {{}} \cup {{x} : x \in counters} \cup {counters}

NoMem == Mem(FALSE, FALSE, FALSE, FALSE)

\* every memory field set, with other values: one, zero, 1 GiB in KiB
OtherMem ==
  [RSSSet |-> TRUE, RSS |-> 1, AvailableSet |-> TRUE, Available |-> 0,
   SwapInSet |-> TRUE, SwapIn |-> 1048576, SwapOutSet |-> TRUE, SwapOut |-> 7]

\* statistics of one family at a time: every combination of the memory flags,
\* and other memory values;
\* one vcpu with every combination of its flags, and two vcpus; one block device and one
\* interface with and without a name; two devices, the first without a name
FamilyStats ==
  {DomainStats("dom", Mem(a, b, x, y), <<>>, <<>>, <<>>) : a, b, x, y \in BOOLEAN}
  \cup {DomainStats("dom", OtherMem, <<>>, <<>>, <<>>)}
  \cup {DomainStats("dom", NoMem, <<Vcpu(a, b, 1500000000)>>, <<>>, <<>>) : a, b \in BOOLEAN}
  \cup {DomainStats("dom", NoMem, <<Vcpu(a, TRUE, 1500000000), Vcpu(TRUE, TRUE, 2000000000)>>,
                    <<>>, <<>>) : a \in BOOLEAN}
  \cup {DomainStats("dom", NoMem, <<>>, <<Block(n, "vda", f)>>, <<>>) :
          n \in BOOLEAN, f \in FlagSets(BlockCounters)}
  \cup {DomainStats("dom", NoMem, <<>>, <<>>, <<Net(n, "eth0", f)>>) :
          n \in BOOLEAN, f \in FlagSets(NetCounters)}
  \cup {DomainStats("dom", NoMem, <<>>,
                    <<Block(FALSE, "vda", BlockCounters), Block(TRUE, "vdb", BlockCounters)>>,
                    <<Net(FALSE, "eth0", NetCounters), Net(TRUE, "eth1", NetCounters)>>)}

FamilyResults == {FetchResult(FALSE, TRUE, st) : st \in FamilyStats}

\* ------------------------------------------------------------------- state

VARIABLES
  maxRequestsInFlight,  \* the MaxRequestsInFlight SetupCollector was given
  calls,                \* what each Collect invocation has asked the directory
                        \* and the socket resolver, and how they answered
  pkgLabels,            \* the package-level label-name variables
  pkgDescs,             \* the package-level descriptor variables
  pc,                   \* where each Collect invocation is
  vmis,                 \* the VMIs the directory returned to it
  socketToVMIs,         \* its socket map: socket path -> VMI
  sched,                \* its scheduler run: time since it began, how it returned
  tasks,                \* its scrape tasks, one per socket
  ch,                   \* the samples its output channel has received (a bag:
                        \* the registry gathers them without regard to order)
  closed                \* whether its output channel has been closed

vars == <<maxRequestsInFlight, calls, pkgLabels, pkgDescs, pc, vmis, socketToVMIs, sched,
          tasks, ch, closed>>

\* cmdclient.FindSocketOnHost: the socket path of a VMI
SocketPath(vmi) == <<"sockets", vmi.namespace, vmi.name>>

\* a scrape task: where it is, the seconds since its ts while Scrape can still
\* read them, its client, the statistics and the local label values it holds;
\* late: it got its slot when the deadline had already elapsed; overdue: its
\* statistics returned more than statsMaxAge after the scheduler began
NewTask ==
  [pc |-> "queued", elapsed |-> 0, cli |-> "none", closes |-> 0, fetches |-> 0,
   stats |-> NoStats, pos |-> 0, dyn |-> <<>>, outcome |-> "", late |-> FALSE,
   overdue |-> FALSE]

Active(t) == t.pc \in {"scrape", "fetch", "report"}

\* the tasks of cycle c that have started and not yet finished
InFlight(c) == {s \in DOMAIN tasks[c] : Active(tasks[c][s])}

Unfinished(c) == {s \in DOMAIN tasks[c] : tasks[c][s].pc # "done"}

\* listed: "" before lookup.VirtualMachinesOnNode has returned, then "err" or
\* "ok"; resolved: the positions of the VMIs FindSocketOnHost was called for;
\* failed: those for which it returned an error
NoCalls == [listed |-> "", resolved |-> {}, failed |-> {}]

Init ==
  /\ maxRequestsInFlight \in 1..MaxInFlight
  /\ calls = [c \in Cycles |-> NoCalls]
  /\ pkgLabels = [l \in LabelVars |-> BaseLabels(l)]
  /\ pkgDescs = [d \in DescVars |-> NewDesc(FqName(d), BaseLabels(LabelVarOf(d)))]
  /\ pc = [c \in Cycles |-> "idle"]
  /\ vmis = [c \in Cycles |-> <<>>]
  /\ socketToVMIs = [c \in Cycles |-> <<>>]
  /\ sched = [c \in Cycles |-> [elapsed |-> 0, result |-> "", late |-> {}]]
  /\ tasks = [c \in Cycles |-> <<>>]
  /\ ch = [c \in Cycles |-> EmptyBag]
  /\ closed = [c \in Cycles |-> FALSE]

\* ------------------------------------------------- Collector.Collect steps

\* ch <- mv
Send(channel, mv) == channel (+) SetToBag({mv})

\* updateVersion
updateVersion == NewConstMetric(versionDesc, "gauge", 1, <<"go", "v0">>)

\* Collect is entered: updateVersion(ch)
CollectEnter_NoVersion(c) ==
  /\ pc[c] = "idle"
  /\ pc' = [pc EXCEPT ![c] = "list"]
  /\ UNCHANGED <<maxRequestsInFlight, calls, pkgLabels, pkgDescs, vmis, socketToVMIs, sched,
                 tasks, ch, closed>>
CollectEnter(c) ==
  /\ pc[c] = "idle"
  /\ ch' = [ch EXCEPT ![c] = Send(@, updateVersion)]
  /\ pc' = [pc EXCEPT ![c] = "list"]
  /\ UNCHANGED <<maxRequestsInFlight, calls, pkgLabels, pkgDescs, vmis, socketToVMIs, sched,
                 tasks, closed>>

\* lookup.VirtualMachinesOnNode returns r; Collect returns on an error and on
\* an empty list
ListVMIs_IgnoresErr(c, r) ==
  /\ pc[c] = "list"
  /\ calls' = [calls EXCEPT ![c].listed = IF r.err THEN "err" ELSE "ok"]
  /\ IF ~r.err /\ Len(r.vmis) = 0
     THEN /\ pc' = [pc EXCEPT ![c] = "done"]
          /\ UNCHANGED vmis
     ELSE /\ pc' = [pc EXCEPT ![c] = "sockmap"]
          /\ vmis' = [vmis EXCEPT ![c] = r.vmis]
  /\ UNCHANGED <<maxRequestsInFlight, pkgLabels, pkgDescs, socketToVMIs, sched, tasks,
                 ch, closed>>
ListVMIs_NoEmptyCheck(c, r) ==
  /\ pc[c] = "list"
  /\ calls' = [calls EXCEPT ![c].listed = IF r.err THEN "err" ELSE "ok"]
  /\ IF r.err
     THEN /\ pc' = [pc EXCEPT ![c] = "done"]
          /\ UNCHANGED vmis
     ELSE /\ pc' = [pc EXCEPT ![c] = "sockmap"]
          /\ vmis' = [vmis EXCEPT ![c] = r.vmis]
  /\ UNCHANGED <<maxRequestsInFlight, pkgLabels, pkgDescs, socketToVMIs, sched, tasks,
                 ch, closed>>
ListVMIs(c, r) ==
  /\ pc[c] = "list"
  /\ calls' = [calls EXCEPT ![c].listed = IF r.err THEN "err" ELSE "ok"]
  /\ IF r.err \/ Len(r.vmis) = 0
     THEN /\ pc' = [pc EXCEPT ![c] = "done"]
          /\ UNCHANGED vmis
     ELSE /\ pc' = [pc EXCEPT ![c] = "sockmap"]
          /\ vmis' = [vmis EXCEPT ![c] = r.vmis]
  /\ UNCHANGED <<maxRequestsInFlight, pkgLabels, pkgDescs, socketToVMIs, sched, tasks,
                 ch, closed>>

\* newvmiSocketMapFromVMIs, FindSocketOnHost failing for the VMIs at the
\* positions in failed: ret[socketPath] = vmi for the others
newvmiSocketMapFromVMIs_KeepsFailed(list, failed) ==
  [p \in {SocketPath(list[i]) : i \in DOMAIN list} |->
     list[CHOOSE i \in DOMAIN list : SocketPath(list[i]) = p]]
newvmiSocketMapFromVMIs(list, failed) ==
  LET ok == {i \in DOMAIN list : i \notin failed}
      paths == {SocketPath(list[i]) : i \in ok}
  IN [p \in paths |-> list[CHOOSE i \in ok : SocketPath(list[i]) = p]]

\* Collect builds the socket map: FindSocketOnHost is called once for every
\* listed VMI
BuildSocketMap(c, failed) ==
  /\ pc[c] = "sockmap"
  /\ socketToVMIs' = [socketToVMIs EXCEPT ![c] = newvmiSocketMapFromVMIs(vmis[c], failed)]
  /\ calls' = [calls EXCEPT ![c].resolved = DOMAIN vmis[c], ![c].failed = failed]
  /\ pc' = [pc EXCEPT ![c] = "collect"]
  /\ UNCHANGED <<maxRequestsInFlight, pkgLabels, pkgDescs, vmis, sched, tasks, ch, closed>>

\* co.concCollector.Collect(socketToVMIs, scraper, collectionTimeout) is
\* entered: one task per socket, all waiting for a slot
SchedEnter(c) ==
  /\ pc[c] = "collect"
  /\ tasks' = [tasks EXCEPT ![c] = [s \in DOMAIN socketToVMIs[c] |-> NewTask]]
  /\ sched' = [sched EXCEPT ![c] = [elapsed |-> 0, result |-> "", late |-> {}]]
  /\ pc' = [pc EXCEPT ![c] = "sched"]
  /\ UNCHANGED <<maxRequestsInFlight, calls, pkgLabels, pkgDescs, vmis, socketToVMIs, ch, closed>>

\* the deadline of the scheduler run of cycle c has elapsed
DeadlineElapsed(c) == pc[c] # "sched" \/ sched[c].elapsed >= collectionTimeout

\* a waiting task gets a slot when fewer than MaxRequestsInFlight tasks are
\* in flight; Scrape begins with ts := time.Now()
StartTask_NoCap(c, s) ==
  /\ s \in DOMAIN tasks[c]
  /\ tasks[c][s].pc = "queued"
  /\ tasks' = [tasks EXCEPT ![c][s].pc = "scrape", ![c][s].elapsed = 0,
                            ![c][s].late = DeadlineElapsed(c)]
  /\ UNCHANGED <<maxRequestsInFlight, calls, pkgLabels, pkgDescs, pc, vmis, socketToVMIs, sched,
                 ch, closed>>
StartTask(c, s) ==
  /\ s \in DOMAIN tasks[c]
  /\ tasks[c][s].pc = "queued"
  /\ Cardinality(InFlight(c)) < maxRequestsInFlight
  /\ tasks' = [tasks EXCEPT ![c][s].pc = "scrape", ![c][s].elapsed = 0,
                            ![c][s].late = DeadlineElapsed(c)]
  /\ UNCHANGED <<maxRequestsInFlight, calls, pkgLabels, pkgDescs, pc, vmis, socketToVMIs, sched,
                 ch, closed>>

\* the scheduler returns because every task has completed
SchedComplete(c) ==
  /\ pc[c] = "sched"
  /\ Unfinished(c) = {}
  /\ sched' = [sched EXCEPT ![c].result = "completed", ![c].elapsed = 0]
  /\ pc' = [pc EXCEPT ![c] = "phase"]
  /\ UNCHANGED <<maxRequestsInFlight, calls, pkgLabels, pkgDescs, vmis, socketToVMIs, tasks,
                 ch, closed>>

\* the scheduler returns because the deadline has elapsed; the tasks still
\* unfinished are left running
SchedTimeout_WaitsForTasks(c) ==
  /\ pc[c] = "sched"
  /\ sched[c].elapsed >= collectionTimeout
  /\ Unfinished(c) = {}
  /\ sched' = [sched EXCEPT ![c].result = "timeout", ![c].late = InFlight(c),
                            ![c].elapsed = 0]
  /\ pc' = [pc EXCEPT ![c] = "phase"]
  /\ UNCHANGED <<maxRequestsInFlight, calls, pkgLabels, pkgDescs, vmis, socketToVMIs, tasks,
                 ch, closed>>
SchedTimeout(c) ==
  /\ pc[c] = "sched"
  /\ sched[c].elapsed >= collectionTimeout
  /\ sched' = [sched EXCEPT ![c].result = "timeout", ![c].late = InFlight(c),
                            ![c].elapsed = 0]
  /\ pc' = [pc EXCEPT ![c] = "phase"]
  /\ UNCHANGED <<maxRequestsInFlight, calls, pkgLabels, pkgDescs, vmis, socketToVMIs, tasks,
                 ch, closed>>

\* makeVMIsPhasesMap: lower-cased phase -> number of VMIs in it
makeVMIsPhasesMap_NoLower(list) ==
  [p \in {list[i].phase : i \in DOMAIN list} |->
     Cardinality({i \in DOMAIN list : list[i].phase = p})]
makeVMIsPhasesMap(list) ==
  [p \in {ToLower(list[i].phase) : i \in DOMAIN list} |->
     Cardinality({i \in DOMAIN list : ToLower(list[i].phase) = p})]

\* updateVMIsPhase: one sample per key of the phases map
updateVMIsPhase(nodeName, list) ==
  {NewConstMetric(vmiCountDesc, "gauge", makeVMIsPhasesMap(list)[p], <<nodeName, p>>) :
     p \in DOMAIN makeVMIsPhasesMap(list)}

NodeName == "node-a"

UpdateVMIsPhase_ScrapedOnly(c) ==
  /\ pc[c] = "phase"
  /\ LET scraped == SelectSeq(vmis[c], LAMBDA v : SocketPath(v) \in DOMAIN socketToVMIs[c])
     IN ch' = [ch EXCEPT ![c] = @ (+) SetToBag(updateVMIsPhase(NodeName, scraped))]
  /\ pc' = [pc EXCEPT ![c] = "done"]
  /\ UNCHANGED <<maxRequestsInFlight, calls, pkgLabels, pkgDescs, vmis, socketToVMIs, sched,
                 tasks, closed>>
UpdateVMIsPhase(c) ==
  /\ pc[c] = "phase"
  /\ ch' = [ch EXCEPT ![c] = @ (+) SetToBag(updateVMIsPhase(NodeName, vmis[c]))]
  /\ pc' = [pc EXCEPT ![c] = "done"]
  /\ UNCHANGED <<maxRequestsInFlight, calls, pkgLabels, pkgDescs, vmis, socketToVMIs, sched,
                 tasks, closed>>

\* the registry closes the channel some time after Collect has returned
CloseSink(c) ==
  /\ pc[c] = "done"
  /\ ~closed[c]
  /\ closed' = [closed EXCEPT ![c] = TRUE]
  /\ UNCHANGED <<maxRequestsInFlight, calls, pkgLabels, pkgDescs, pc, vmis, socketToVMIs, sched,
                 tasks, ch>>

\* ------------------------------------------------ prometheusScraper.Scrape

\* the task returns; a connected client is closed by the deferred cli.Close
Finish_LeavesOpen(t, outcome) ==
  [t EXCEPT !.pc = "done", !.outcome = outcome, !.elapsed = 0, !.pos = 0, !.dyn = <<>>]
Finish(t, outcome) ==
  [t EXCEPT !.pc = "done", !.outcome = outcome, !.elapsed = 0, !.pos = 0, !.dyn = <<>>,
            !.cli = IF t.cli = "open" THEN "closed" ELSE t.cli,
            !.closes = IF t.cli = "open" THEN t.closes + 1 ELSE t.closes]

\* cmdclient.NewClient(socketFile) succeeds (ok) or fails
Connect_FetchAfterFailure(c, s, ok) ==
  /\ s \in DOMAIN tasks[c]
  /\ tasks[c][s].pc = "scrape"
  /\ tasks' = [tasks EXCEPT ![c][s] =
                 IF ok THEN [@ EXCEPT !.pc = "fetch", !.cli = "open", !.fetches = @ + 1]
                 ELSE [@ EXCEPT !.pc = "fetch", !.fetches = @ + 1]]
  /\ UNCHANGED <<maxRequestsInFlight, calls, pkgLabels, pkgDescs, pc, vmis, socketToVMIs, sched,
                 ch, closed>>
Connect(c, s, ok) ==
  /\ s \in DOMAIN tasks[c]
  /\ tasks[c][s].pc = "scrape"
  /\ tasks' = [tasks EXCEPT ![c][s] =
                 IF ok THEN [@ EXCEPT !.pc = "fetch", !.cli = "open", !.fetches = @ + 1]
                 ELSE Finish(@, "connectErr")]
  /\ UNCHANGED <<maxRequestsInFlight, calls, pkgLabels, pkgDescs, pc, vmis, socketToVMIs, sched,
                 ch, closed>>

\* what Scrape does with the result r of cli.GetDomainStats when elapsed
\* seconds have passed since ts
AfterFetch_NoAgeCheck(r, elapsed) ==
  IF r.err THEN "fetchErr"
  ELSE IF ~r.exists \/ r.stats.Name = "" THEN "gone"
  ELSE "report"
AfterFetch_NoNameCheck(r, elapsed) ==
  IF r.err THEN "fetchErr"
  ELSE IF ~r.exists THEN "gone"
  ELSE IF elapsed > statsMaxAge THEN "stale"
  ELSE "report"
AfterFetch(r, elapsed) ==
  IF r.err THEN "fetchErr"
  ELSE IF ~r.exists \/ r.stats.Name = "" THEN "gone"
  ELSE IF elapsed > statsMaxAge THEN "stale"
  ELSE "report"

\* cli.GetDomainStats returns r, at any time after the call
FetchReturn(c, s, r) ==
  /\ s \in DOMAIN tasks[c]
  /\ tasks[c][s].pc = "fetch"
  /\ LET t == tasks[c][s]
         next == AfterFetch(r, t.elapsed)
     IN tasks' = [tasks EXCEPT ![c][s] =
                    IF next = "report"
                    THEN [t EXCEPT !.pc = "report", !.stats = r.stats, !.pos = 1,
                                   !.elapsed = 0,
                                   !.overdue = t.late /\ t.elapsed > StalenessMargin]
                    ELSE Finish(t, next)]
  /\ UNCHANGED <<maxRequestsInFlight, calls, pkgLabels, pkgDescs, pc, vmis, socketToVMIs, sched,
                 ch, closed>>

\* ------------------------------------------------ prometheusScraper.Report

Program(c, s) == ReportProgram(socketToVMIs[c][s], tasks[c][s].stats)

\* the task moves past the instruction it has run; Report and Scrape return
\* after the last one
Advance(c, s) ==
  IF tasks[c][s].pos = Len(Program(c, s))
  THEN Finish(tasks[c][s], "reported")
  ELSE [tasks[c][s] EXCEPT !.pos = @ + 1]

\* the loops over vmi.Labels and vmi.Annotations of one update function: the
\* package-level label lists are reset and extended, the local value lists too
RunLabels(c, s, ins) ==
  \E lo \in Orders(DOMAIN socketToVMIs[c][s].labels),
     ao \in Orders(DOMAIN socketToVMIs[c][s].annotations) :
    /\ pkgLabels' = [l \in LabelVars |->
                       IF l \in {LabelVarOf(d) : d \in GroupDescs(ins.group)}
                       THEN BaseLabels(l) \o DynamicNames(lo, ao)
                       ELSE pkgLabels[l]]
    /\ tasks' = [tasks EXCEPT ![c][s] =
                   [Advance(c, s) EXCEPT !.dyn = DynamicValues(socketToVMIs[c][s], lo, ao)]]
    /\ UNCHANGED <<pkgDescs, ch>>

\* the NewDesc calls of one update function, on the package-level label lists
RunDesc(c, s, ins) ==
  /\ pkgDescs' = [d \in DescVars |->
                    IF d \in GroupDescs(ins.group)
                    THEN NewDesc(FqName(d), pkgLabels[LabelVarOf(d)])
                    ELSE pkgDescs[d]]
  /\ tasks' = [tasks EXCEPT ![c][s] = Advance(c, s)]
  /\ UNCHANGED <<pkgLabels, ch>>

\* tryToPushMetric: nothing is sent when NewConstMetric returned an error
tryToPushMetric_IgnoreErr(desc, labelValues) == "send"
tryToPushMetric(desc, labelValues) ==
  IF ConstMetricErr(desc, labelValues) THEN "skip" ELSE "send"

\* NewConstMetric on the package-level descriptor and tryToPushMetric; a send
\* on the closed channel panics, and Report's deferred recover ends the task
RunEmit_NoRecover(c, s, ins) ==
  LET desc == pkgDescs[ins.desc]
      labelValues == LocalLabelValues(ins, tasks[c][s].dyn)
  IN /\ UNCHANGED <<pkgLabels, pkgDescs>>
     /\ IF tryToPushMetric(desc, labelValues) = "skip"
        THEN /\ tasks' = [tasks EXCEPT ![c][s] = Advance(c, s)]
             /\ UNCHANGED ch
        ELSE IF closed[c]
        THEN /\ tasks' = [tasks EXCEPT ![c] =
                            [t \in DOMAIN tasks[c] |-> Finish(tasks[c][t], "crashed")]]
             /\ UNCHANGED ch
        ELSE /\ ch' = [ch EXCEPT ![c] =
                         Send(@, NewConstMetric(desc, ins.kind, ins.value, labelValues))]
             /\ tasks' = [tasks EXCEPT ![c][s] = Advance(c, s)]
RunEmit(c, s, ins) ==
  LET desc == pkgDescs[ins.desc]
      labelValues == LocalLabelValues(ins, tasks[c][s].dyn)
  IN /\ UNCHANGED <<pkgLabels, pkgDescs>>
     /\ IF tryToPushMetric(desc, labelValues) = "skip"
        THEN /\ tasks' = [tasks EXCEPT ![c][s] = Advance(c, s)]
             /\ UNCHANGED ch
        ELSE IF closed[c]
        THEN /\ tasks' = [tasks EXCEPT ![c][s] = Finish(@, "panicked")]
             /\ UNCHANGED ch
        ELSE /\ ch' = [ch EXCEPT ![c] =
                         Send(@, NewConstMetric(desc, ins.kind, ins.value, labelValues))]
             /\ tasks' = [tasks EXCEPT ![c][s] = Advance(c, s)]

\* one instruction of Report
ReportStep(c, s) ==
  /\ s \in DOMAIN tasks[c]
  /\ tasks[c][s].pc = "report"
  /\ LET ins == Program(c, s)[tasks[c][s].pos]
     IN CASE ins.op = "labels" -> RunLabels(c, s, ins)
          [] ins.op = "desc" -> RunDesc(c, s, ins)
          [] ins.op = "emit" -> RunEmit(c, s, ins)
  /\ UNCHANGED <<maxRequestsInFlight, calls, pc, vmis, socketToVMIs, sched, closed>>

\* -------------------------------------------------------------------- time

\* a clock is advanced only while a step can still read it and tell its
\* values apart: a task's until its statistics have returned and up to
\* ClockCap, a scheduler's until it returns and up to the deadline
TaskClockRuns(t) == t.pc \in {"scrape", "fetch"} /\ t.elapsed < ClockCap

SchedClockRuns(c) == pc[c] = "sched" /\ sched[c].elapsed < collectionTimeout

\* one second passes
Tick ==
  /\ \/ \E c \in Cycles : SchedClockRuns(c)
     \/ \E c \in Cycles : \E s \in DOMAIN tasks[c] : TaskClockRuns(tasks[c][s])
  /\ sched' = [c \in Cycles |->
                 IF SchedClockRuns(c) THEN [sched[c] EXCEPT !.elapsed = @ + 1] ELSE sched[c]]
  /\ tasks' = [c \in Cycles |->
                 [s \in DOMAIN tasks[c] |->
                    IF TaskClockRuns(tasks[c][s])
                    THEN [tasks[c][s] EXCEPT !.elapsed = @ + 1]
                    ELSE tasks[c][s]]]
  /\ UNCHANGED <<maxRequestsInFlight, calls, pkgLabels, pkgDescs, pc, vmis, socketToVMIs, ch,
                 closed>>

\* ---------------------------------------------------------- specifications

\* the steps of the Collect invocations in C, the directory answering from
\* Dir and the clients from Fetch
Step(C, Dir, Fetch) ==
  \/ Tick
  \/ \E c \in C : CollectEnter(c)
  \/ \E c \in C : \E r \in Dir : ListVMIs(c, r)
  \/ \E c \in C : \E failed \in SUBSET (DOMAIN vmis[c]) : BuildSocketMap(c, failed)
  \/ \E c \in C : SchedEnter(c)
  \/ \E c \in C : \E s \in DOMAIN tasks[c] : StartTask(c, s)
  \/ \E c \in C : \E s \in DOMAIN tasks[c] : \E ok \in BOOLEAN : Connect(c, s, ok)
  \/ \E c \in C : \E s \in DOMAIN tasks[c] : \E r \in Fetch : FetchReturn(c, s, r)
  \/ \E c \in C : \E s \in DOMAIN tasks[c] : ReportStep(c, s)
  \/ \E c \in C : SchedComplete(c)
  \/ \E c \in C : SchedTimeout(c)
  \/ \E c \in C : UpdateVMIsPhase(c)
  \/ \E c \in C : CloseSink(c)

\* one Collect invocation
Next == Step({1}, DirectoryResults, FetchResults)

Spec == Init /\ [][Next]_vars

\* one Collect invocation on a node with a single VMI: a single scrape task
NextSingle == Step({1}, SingleVMIResults, FamilyResults)

InitSingle == Init /\ maxRequestsInFlight = 1

SpecSingle == InitSingle /\ [][NextSingle]_vars

\* the directory lists the same two VMIs to every invocation, and every fetch
\* returns the same statistics
SameDirectory == {[err |-> FALSE, vmis |-> <<PoolVMI(1), PoolVMI(2)>>]}

SameStatistics ==
  {FetchResult(FALSE, TRUE, DomainStats("dom", Mem(TRUE, FALSE, FALSE, FALSE), <<>>, <<>>, <<>>))}

\* two Collect invocations on the same collector at the same time, each
\* running its scrape tasks one after the other; every socket resolves, every
\* client connects and every call returns well within the deadline
NextTwo ==
  \E c \in Cycles :
    \/ CollectEnter(c)
    \/ \E r \in SameDirectory : ListVMIs(c, r)
    \/ BuildSocketMap(c, {})
    \/ SchedEnter(c)
    \/ \E s \in DOMAIN tasks[c] : StartTask(c, s)
    \/ \E s \in DOMAIN tasks[c] : Connect(c, s, TRUE)
    \/ \E s \in DOMAIN tasks[c] : \E r \in SameStatistics : FetchReturn(c, s, r)
    \/ \E s \in DOMAIN tasks[c] : ReportStep(c, s)
    \/ SchedComplete(c)
    \/ UpdateVMIsPhase(c)
    \/ CloseSink(c)

SpecTwo == InitSingle /\ [][NextTwo]_vars

\* a task is waiting while a slot of its cycle is free
SlotWaiting ==
  \E c \in Cycles : \E s \in DOMAIN tasks[c] :
    tasks[c][s].pc = "queued" /\ Cardinality(InFlight(c)) < maxRequestsInFlight

\* one Collect invocation whose scheduler hands a free slot to a waiting task
\* at once: no time passes while a task could start, so a task starts late
\* only because every slot was taken until then
NextBudget ==
  \/ ~SlotWaiting /\ Tick
  \/ CollectEnter(1)
  \/ \E r \in DirectoryResults : ListVMIs(1, r)
  \/ \E failed \in SUBSET (DOMAIN vmis[1]) : BuildSocketMap(1, failed)
  \/ SchedEnter(1)
  \/ \E s \in DOMAIN tasks[1] : StartTask(1, s)
  \/ \E s \in DOMAIN tasks[1] : \E ok \in BOOLEAN : Connect(1, s, ok)
  \/ \E s \in DOMAIN tasks[1] : \E r \in FetchResults : FetchReturn(1, s, r)
  \/ \E s \in DOMAIN tasks[1] : ReportStep(1, s)
  \/ SchedComplete(1)
  \/ SchedTimeout(1)
  \/ UpdateVMIsPhase(1)
  \/ CloseSink(1)

SpecBudget == Init /\ [][NextBudget]_vars

\* the scheduler's timer and Collect's own goroutine keep running whatever the
\* tasks do; no task step is fair: a client call may never return
Fairness ==
  /\ WF_vars(Tick)
  /\ WF_vars(SchedTimeout(1))
  /\ WF_vars(SchedComplete(1))
  /\ WF_vars(UpdateVMIsPhase(1))

SpecFair == Spec /\ Fairness

\* ------------------------------------------------------- reading the state

\* a sample of one of the per-VMI metric families
IsVmiSample(m) == m.name \notin {versionDesc.fqName, vmiCountDesc.fqName}

\* the samples received by the channel of cycle c that carry the namespace
\* and name of vmi
SamplesOf(c, vmi) ==
  {m \in BagToSet(ch[c]) :
     IsVmiSample(m) /\ m.values[2] = vmi.namespace /\ m.values[3] = vmi.name}

RECURSIVE Copies(_, _)
Copies(B, S) ==
  IF S = {} THEN 0
  ELSE LET m == CHOOSE x \in S : TRUE IN CopiesIn(m, B) + Copies(B, S \ {m})

\* how many samples the task on socket s of cycle c has delivered
Delivered(c, s) == Copies(ch[c], SamplesOf(c, socketToVMIs[c][s]))

\* the phase samples received by the channel of cycle c
PhaseSamples(c) == {m \in BagToSet(ch[c]) : m.name = vmiCountDesc.fqName}

Sockets(c) == DOMAIN tasks[c]

\* the task is about to run an emit instruction
AtEmit(c, s) ==
  /\ tasks[c][s].pc = "report"
  /\ Program(c, s)[tasks[c][s].pos].op = "emit"

\* ------------------------------------------------------------------ claims

\* C1: in every reachable state of a cycle the number of scrape tasks that
\* have started and not yet finished is at most MaxRequestsInFlight; the
\* other tasks wait for a slot.
C1_InFlightBounded ==
  \A c \in Cycles : Cardinality(InFlight(c)) <= maxRequestsInFlight

\* the cap is reached and a task is waiting behind it
C1_Witness ==
  \E c \in Cycles :
    /\ Cardinality(InFlight(c)) = maxRequestsInFlight
    /\ \E s \in Sockets(c) : tasks[c][s].pc = "queued"

\* C2: once the scheduler has been entered, Collect eventually returns, also
\* when a task's client call never returns; the scheduler returns as
\* "completed" only with every task finished and on the deadline only with
\* the deadline elapsed, and the unfinished tasks are left as they are.
C2_CollectReturns ==
  /\ (pc[1] = "sched") ~> (pc[1] = "done")
  /\ [][(pc[1] = "sched" /\ pc'[1] # "sched") =>
          /\ tasks' = tasks
          /\ sched'[1].result = "completed" => Unfinished(1) = {}
          /\ sched'[1].result = "timeout" => sched[1].elapsed >= collectionTimeout]_vars

\* Collect has returned on the deadline while a client call is still pending
C2_Witness ==
  /\ pc[1] = "done"
  /\ sched[1].result = "timeout"
  /\ \E s \in Sockets(1) : tasks[1][s].pc = "fetch"

\* C3: after the scheduler has returned because the deadline elapsed, no
\* sample of a task that was still running at that moment is delivered.
C3_NoDeliveryAfterDeadline ==
  [][\A c \in Cycles : \A s \in Sockets(c) :
       (sched[c].result = "timeout" /\ s \in sched[c].late) =>
         Delivered(c, s)' = Delivered(c, s)]_vars

\* C4: when the statistics fetch of a task returns successfully, the task
\* ends without a sample if more than statsMaxAge has elapsed since its ts,
\* and goes on to Report otherwise; a stale task never has a sample.
C4_Staleness ==
  /\ [][\A c \in Cycles : \A s \in Sockets(c) :
          (/\ tasks[c][s].pc = "fetch"
           /\ tasks'[c][s].pc # "fetch"
           /\ tasks'[c][s].outcome \notin {"fetchErr", "gone"}) =>
            IF tasks[c][s].elapsed > statsMaxAge
            THEN tasks'[c][s].pc = "done" /\ tasks'[c][s].outcome = "stale"
            ELSE tasks'[c][s].pc = "report"]_vars
  /\ [](\A c \in Cycles : \A s \in Sockets(c) :
          tasks[c][s].outcome = "stale" => Delivered(c, s) = 0)

\* one task was discarded as stale and another of the same cycle reported
C4_Witness ==
  \E c \in Cycles : \E s, t \in Sockets(c) :
    /\ tasks[c][s].outcome = "stale"
    /\ tasks[c][t].outcome = "reported"
    /\ Delivered(c, t) > 0

\* the label names the descriptors of vmi carry: the base labels of the
\* label variable and one name per metadata label and annotation
OwnLabelNames(vmi, labelVar) ==
  SeqToSet(BaseLabels(labelVar))
  \cup {[prefix |-> labelPreffix, key |-> labelFormatter(k)] : k \in DOMAIN vmi.labels}
  \cup {[prefix |-> annotationPreffix, key |-> labelFormatter(k)] : k \in DOMAIN vmi.annotations}

\* C5: no label-name list and no descriptor that a task reads when it builds
\* a sample has been written by another task since the task built it: the
\* label lists a task makes its descriptors from and the descriptors it makes
\* its samples from carry the label names of its own VMI.
C5_NoSharedDescriptorState ==
  \A c \in Cycles : \A s \in Sockets(c) :
    tasks[c][s].pc = "report" =>
      LET ins == Program(c, s)[tasks[c][s].pos]
          vmi == socketToVMIs[c][s]
      IN /\ ins.op = "desc" =>
              \A d \in GroupDescs(ins.group) :
                SeqToSet(pkgLabels[LabelVarOf(d)]) = OwnLabelNames(vmi, LabelVarOf(d))
         /\ ins.op = "emit" =>
              SeqToSet(pkgDescs[ins.desc].variableLabels) = OwnLabelNames(vmi, LabelVarOf(ins.desc))

\* the type label of the sample for a statistics field
TypeOf(field) ==
  CASE field \in {"RdReqs", "RdBytes", "RdTimes"} -> "read"
    [] field \in {"WrReqs", "WrBytes", "WrTimes"} -> "write"
    [] field \in {"RxBytes", "RxPkts", "RxErrs"} -> "rx"
    [] field \in {"TxBytes", "TxPkts", "TxErrs"} -> "tx"
    [] field = "SwapIn" -> "in"
    [] field = "SwapOut" -> "out"
    [] OTHER -> ""

\* v is the value of the label named n in the sample that ins builds for vmi
IsValueOfLabel(n, v, vmi, ins) ==
  CASE n.prefix = "node" -> v = vmi.nodeName
    [] n.prefix = "namespace" -> v = vmi.namespace
    [] n.prefix = "name" -> v = vmi.name
    [] n.prefix \in {"drive", "interface", "id"} -> v = ins.dev
    [] n.prefix = "type" -> v = TypeOf(ins.field)
    [] n.prefix = "state" -> v = ins.base[5]
    [] n.prefix = labelPreffix ->
         \E k \in DOMAIN vmi.labels : labelFormatter(k) = n.key /\ vmi.labels[k] = v
    [] n.prefix = annotationPreffix ->
         \E k \in DOMAIN vmi.annotations : labelFormatter(k) = n.key /\ vmi.annotations[k] = v

\* C6: for every sample the translation attempts to build, the list of label
\* values has the length of the descriptor's list of label names and the
\* value at each position is the value of the label named at that position.
C6_LabelValuesAligned ==
  \A c \in Cycles : \A s \in Sockets(c) :
    AtEmit(c, s) =>
      LET ins == Program(c, s)[tasks[c][s].pos]
          names == pkgDescs[ins.desc].variableLabels
          labelValues == LocalLabelValues(ins, tasks[c][s].dyn)
      IN /\ Len(labelValues) = Len(names)
         /\ \A k \in DOMAIN names :
              IsValueOfLabel(names[k], labelValues[k], socketToVMIs[c][s], ins)

\* the sample m carries the value v for the label named n
HasLabel(m, n, v) ==
  \E k \in DOMAIN m.labels : k \in DOMAIN m.values /\ m.labels[k] = L(n) /\ m.values[k] = v

BlockDescOf(field) ==
  CASE field \in {"RdReqs", "WrReqs"} -> "storageIopsDesc"
    [] field \in {"RdBytes", "WrBytes"} -> "storageTrafficDesc"
    [] field \in {"RdTimes", "WrTimes"} -> "storageTimesDesc"

NetDescOf(field) ==
  CASE field \in {"RxBytes", "TxBytes"} -> "networkTrafficBytesDesc"
    [] field \in {"RxPkts", "TxPkts"} -> "networkTrafficPktsDesc"
    [] field \in {"RxErrs", "TxErrs"} -> "networkErrorsDesc"

\* how many samples of the family fq the channel of cycle c has received for
\* vmi with the value v, the label idLabel = dev and the label type = type
DeviceSamples(c, vmi, fq, v, idLabel, dev, type) ==
  Copies(ch[c], {m \in SamplesOf(c, vmi) :
                   /\ m.name = fq
                   /\ m.value = v
                   /\ HasLabel(m, idLabel, dev)
                   /\ HasLabel(m, "type", type)})

\* C7: a task scrape that ran Report to its end has delivered, for every
\* block device whose name is set and every counter of it that is set, exactly
\* one sample with the raw counter as value, the device name as drive label
\* and read or write as type label.
C7_BlockSamples ==
  \A c \in Cycles : \A s \in Sockets(c) :
    tasks[c][s].outcome = "reported" =>
      \A k \in DOMAIN tasks[c][s].stats.Block :
        LET block == tasks[c][s].stats.Block[k]
        IN block.NameSet =>
             \A f \in BlockCounters :
               block[f \o "Set"] =>
                 DeviceSamples(c, socketToVMIs[c][s], FqName(BlockDescOf(f)), block[f],
                               "drive", block.Name, TypeOf(f)) = 1

\* C8: the same for every network interface whose name is set: one sample per
\* set counter, with the interface name as interface label and rx or tx as
\* type label.
C8_NetworkSamples ==
  \A c \in Cycles : \A s \in Sockets(c) :
    tasks[c][s].outcome = "reported" =>
      \A k \in DOMAIN tasks[c][s].stats.Net :
        LET net == tasks[c][s].stats.Net[k]
        IN net.NameSet =>
             \A f \in NetCounters :
               net[f \o "Set"] =>
                 DeviceSamples(c, socketToVMIs[c][s], FqName(NetDescOf(f)), net[f],
                               "interface", net.Name, TypeOf(f)) = 1

\* the number of samples the Report of the task on socket s would send
Emits(c, s) == Cardinality({k \in DOMAIN Program(c, s) : Program(c, s)[k].op = "emit"})

TaskFailed(t) == t.outcome \in {"connectErr", "fetchErr"}

\* C9: a task whose connect or fetch fails ends normally without a sample,
\* and without a fetch after a failed connect; the step in which it fails
\* changes nothing of the cycle, of the channel, of the shared descriptors or
\* of another task; a task that reported while every other task failed has
\* delivered all its samples; and the cycle still emits the phase samples.
C9_FailureIsolation ==
  /\ [](\A c \in Cycles : \A s \in Sockets(c) :
          /\ TaskFailed(tasks[c][s]) => tasks[c][s].pc = "done" /\ Delivered(c, s) = 0
          /\ tasks[c][s].outcome = "connectErr" =>
               tasks[c][s].fetches = 0 /\ tasks[c][s].cli = "none"
          /\ tasks[c][s].fetches > 0 => tasks[c][s].cli # "none"
          /\ (/\ tasks[c][s].outcome = "reported"
              /\ \A t \in Sockets(c) \ {s} : TaskFailed(tasks[c][t])) =>
               Delivered(c, s) = Emits(c, s))
  /\ [](\A c \in Cycles :
          (pc[c] = "done" /\ vmis[c] # <<>>) =>
            PhaseSamples(c) = updateVMIsPhase(NodeName, vmis[c]))
  /\ [][\A c \in Cycles : \A s \in Sockets(c) :
          (~TaskFailed(tasks[c][s]) /\ TaskFailed(tasks'[c][s])) =>
            /\ UNCHANGED <<ch, pkgLabels, pkgDescs, pc, sched, closed>>
            /\ \A t \in Sockets(c) \ {s} : tasks'[c][t] = tasks[c][t]]_vars

\* one task failed to connect, the other reported its samples, and the cycle
\* returned with the phase samples
C9_Witness ==
  \E c \in Cycles : \E s, t \in Sockets(c) :
    /\ tasks[c][s].outcome = "connectErr"
    /\ tasks[c][t].outcome = "reported"
    /\ Delivered(c, t) = Emits(c, t)
    /\ Emits(c, t) > 0
    /\ pc[c] = "done"
    /\ PhaseSamples(c) # {}

\* C10: a send on the closed channel ends the sending task normally, inside
\* its Report: the task is done with its client closed, nothing is delivered,
\* the cycle and the other tasks are left as they are, and no sample already
\* delivered is lost; nothing is delivered to a closed channel.
C10_PanicSafety ==
  /\ [][\A c \in Cycles : \A s \in Sockets(c) :
          (/\ AtEmit(c, s)
           /\ closed[c]
           /\ tasks'[c][s] # tasks[c][s]
           /\ LET ins == Program(c, s)[tasks[c][s].pos]
              IN tryToPushMetric(pkgDescs[ins.desc],
                                 LocalLabelValues(ins, tasks[c][s].dyn)) = "send") =>
            /\ tasks'[c][s].pc = "done"
            /\ tasks'[c][s].outcome = "panicked"
            /\ tasks'[c][s].cli = "closed"
            /\ UNCHANGED <<ch, pc, sched, closed>>
            /\ \A t \in Sockets(c) \ {s} : tasks'[c][t] = tasks[c][t]]_vars
  /\ [][\A c \in Cycles : closed[c] => ch'[c] = ch[c]]_vars
  /\ [][\A c \in Cycles : \A m \in BagToSet(ch[c]) :
          CopiesIn(m, ch'[c]) >= CopiesIn(m, ch[c])]_vars
  /\ [](\A c \in Cycles : \A s \in Sockets(c) :
          tasks[c][s].outcome = "panicked" => closed[c])

\* the channel was closed between two samples of a task
C10_Witness ==
  \E c \in Cycles : \E s \in Sockets(c) :
    /\ tasks[c][s].outcome = "panicked"
    /\ Delivered(c, s) > 0
    /\ Delivered(c, s) < Emits(c, s)

\* C11: for each VMI of a cycle the channel has received, once the VMI's task
\* has ended, either every sample its statistics call for (one per set field)
\* or none of them.
C11_AllOrNothing ==
  \A c \in Cycles : \A s \in Sockets(c) :
    tasks[c][s].pc = "done" =>
      \/ Delivered(c, s) = 0
      \/ Delivered(c, s) = Emits(c, s)

\* the socket map of cycle c has been built
MapBuilt(c) == pc[c] \in {"collect", "sched", "phase"} \/ (pc[c] = "done" /\ vmis[c] # <<>>)

\* the scheduler of cycle c has been handed the socket map
Scheduled(c) == pc[c] \in {"sched", "phase"} \/ (pc[c] = "done" /\ vmis[c] # <<>>)

\* C12: for a list of N VMIs of which K fail socket resolution the socket map
\* holds one entry for each of the N-K others and none for the K, there is
\* one scrape task per entry and none for a VMI whose resolution failed, and
\* no task fetches twice; an empty list gives an empty map and no resolution
\* attempt.
C12_SocketMap ==
  /\ newvmiSocketMapFromVMIs(<<>>, {}) = <<>>
  /\ \A c \in Cycles :
       /\ (calls[c].listed = "ok" /\ vmis[c] = <<>>) =>
            socketToVMIs[c] = <<>> /\ calls[c].resolved = {} /\ tasks[c] = <<>>
       /\ MapBuilt(c) =>
            LET N == Len(vmis[c])
                K == Cardinality(calls[c].failed)
            IN /\ calls[c].resolved = 1..N
               /\ Cardinality(DOMAIN socketToVMIs[c]) = N - K
               /\ \A i \in 1..N :
                    IF i \in calls[c].failed
                    THEN SocketPath(vmis[c][i]) \notin DOMAIN socketToVMIs[c]
                    ELSE /\ SocketPath(vmis[c][i]) \in DOMAIN socketToVMIs[c]
                         /\ socketToVMIs[c][SocketPath(vmis[c][i])] = vmis[c][i]
               /\ Scheduled(c) =>
                    /\ DOMAIN tasks[c] = DOMAIN socketToVMIs[c]
                    /\ Cardinality(DOMAIN tasks[c]) = N - K
                    /\ \A s \in DOMAIN tasks[c] : tasks[c][s].fetches <= 1

\* of two listed VMIs one failed socket resolution and the other was scraped
C12_Witness ==
  \E c \in Cycles :
    /\ Len(vmis[c]) = 2
    /\ Cardinality(calls[c].failed) = 1
    /\ \E s \in Sockets(c) : tasks[c][s].outcome = "reported"

\* the samples of the descriptor variable descVar among the samples of vmi
FamilySamples(c, vmi, descVar) == {m \in SamplesOf(c, vmi) : m.name = FqName(descVar)}

\* C13: every memory-related sample (resident, available, swap in, swap out)
\* has the value raw * 1024, raw being the KiB value of the statistics
\* record; RSS 2048 gives 2097152.
C13_MemoryBytes ==
  \A c \in Cycles : \A s \in Sockets(c) :
    LET vmi == socketToVMIs[c][s]
        mem == tasks[c][s].stats.Memory
    IN /\ \A m \in FamilySamples(c, vmi, "memoryResidentDesc") :
            /\ m.value = mem.RSS * 1024
            /\ mem.RSS = 2048 => m.value = 2097152
       /\ \A m \in FamilySamples(c, vmi, "memoryAvailableDesc") :
            m.value = mem.Available * 1024
       /\ \A m \in FamilySamples(c, vmi, "swapTrafficDesc") :
            /\ HasLabel(m, "type", "in") => m.value = mem.SwapIn * 1024
            /\ HasLabel(m, "type", "out") => m.value = mem.SwapOut * 1024
            /\ HasLabel(m, "type", "in") \/ HasLabel(m, "type", "out")

\* a task has delivered the four memory samples of RSS 2048, Available 4096,
\* SwapIn 3 and SwapOut 5
C13_Witness ==
  \E c \in Cycles : \E s \in Sockets(c) :
    LET vmi == socketToVMIs[c][s]
    IN /\ tasks[c][s].outcome = "reported"
       /\ \E m \in FamilySamples(c, vmi, "memoryResidentDesc") : m.value = 2097152
       /\ \E m \in FamilySamples(c, vmi, "memoryAvailableDesc") : m.value = 4194304
       /\ \E m \in FamilySamples(c, vmi, "swapTrafficDesc") :
            HasLabel(m, "type", "in") /\ m.value = 3072
       /\ \E m \in FamilySamples(c, vmi, "swapTrafficDesc") :
            HasLabel(m, "type", "out") /\ m.value = 5120

\* C14: the value v of every vCPU sample is the vCPU time in nanoseconds
\* divided by 1e9: v * 10^9 equals the raw Time of the vCPU the sample's id
\* label names.
C14_VcpuSeconds ==
  \A c \in Cycles : \A s \in Sockets(c) :
    \A m \in FamilySamples(c, socketToVMIs[c][s], "vcpuUsageDesc") :
      \A k \in DOMAIN tasks[c][s].stats.Vcpu :
        HasLabel(m, "id", ToString(k - 1)) =>
          m.value * 1000000000 = tasks[c][s].stats.Vcpu[k].Time

\* 1 for a flag that is set, 0 for one that is not
One(flag) == IF flag THEN 1 ELSE 0

\* C15: a task scrape that ran Report to its end has delivered exactly one
\* memory-related sample per memory flag that is true (resident, available,
\* swap with type in, swap with type out) and none for a flag that is false.
C15_MemoryOmission ==
  \A c \in Cycles : \A s \in Sockets(c) :
    tasks[c][s].outcome = "reported" =>
      LET vmi == socketToVMIs[c][s]
          mem == tasks[c][s].stats.Memory
          swap == FamilySamples(c, vmi, "swapTrafficDesc")
      IN /\ Copies(ch[c], FamilySamples(c, vmi, "memoryResidentDesc")) = One(mem.RSSSet)
         /\ Copies(ch[c], FamilySamples(c, vmi, "memoryAvailableDesc")) = One(mem.AvailableSet)
         /\ Copies(ch[c], {m \in swap : HasLabel(m, "type", "in")}) = One(mem.SwapInSet)
         /\ Copies(ch[c], {m \in swap : HasLabel(m, "type", "out")}) = One(mem.SwapOutSet)
         /\ \A m \in swap : HasLabel(m, "type", "in") \/ HasLabel(m, "type", "out")

\* the key with each ".", "/" and "-" replaced by "_"
Sanitized(key) ==
  [i \in DOMAIN key |-> IF key[i] \in {".", "/", "-"} THEN "_" ELSE key[i]]

\* the label names of vmi for the label variable labelVar, the keys taken in
\* the orders lo and ao: the base labels, one name per metadata label, one
\* name per annotation
ExpectedNames(labelVar, lo, ao) ==
  BaseLabels(labelVar)
  \o [i \in DOMAIN lo |-> [prefix |-> "vmi_k8s_label_", key |-> Sanitized(lo[i])]]
  \o [i \in DOMAIN ao |-> [prefix |-> "vmi_k8s_annotation_", key |-> Sanitized(ao[i])]]

\* C16: the descriptor a task builds a sample from carries the family's base
\* labels followed by exactly one name vmi_k8s_label_ + sanitize(k) for every
\* metadata label key k of its VMI and exactly one name vmi_k8s_annotation_ +
\* sanitize(k) for every annotation key k; no key is skipped and none
\* contributes twice.
C16_DynamicLabels ==
  \A c \in Cycles : \A s \in Sockets(c) :
    AtEmit(c, s) =>
      LET ins == Program(c, s)[tasks[c][s].pos]
          vmi == socketToVMIs[c][s]
      IN \E lo \in Orders(DOMAIN vmi.labels), ao \in Orders(DOMAIN vmi.annotations) :
           pkgDescs[ins.desc].variableLabels = ExpectedNames(LabelVarOf(ins.desc), lo, ao)

\* the phase sample (node, phase) = count
PhaseSample(node, phase, count) ==
  [name |-> "kubevirt_vmi_phase_count", labels |-> <<L("node"), L("phase")>>,
   kind |-> "gauge", value |-> count, values |-> <<node, phase>>]

\* C17: for a non-empty VMI list on node n the cycle emits exactly one gauge
\* sample (n, p) for each lower-cased phase p that occurs in the list, with
\* the number of listed VMIs in that phase as value, and no other phase
\* sample; Running, Running, Failed give (n, running) = 2 and (n, failed) = 1.
C17_PhaseAggregation ==
  /\ updateVMIsPhase("node-a", <<[PoolVMI(1) EXCEPT !.phase = Running],
                                 [PoolVMI(2) EXCEPT !.phase = Running],
                                 [PoolVMI(3) EXCEPT !.phase = Failed]>>)
       = {PhaseSample("node-a", <<"r", "u", "n", "n", "i", "n", "g">>, 2),
          PhaseSample("node-a", <<"f", "a", "i", "l", "e", "d">>, 1)}
  /\ \A c \in Cycles :
       (pc[c] = "done" /\ vmis[c] # <<>>) =>
         /\ \A m \in PhaseSamples(c) :
              /\ CopiesIn(m, ch[c]) = 1
              /\ \E i \in DOMAIN vmis[c] :
                   m = PhaseSample(NodeName, ToLower(vmis[c][i].phase),
                                   Cardinality({j \in DOMAIN vmis[c] :
                                      ToLower(vmis[c][j].phase) = ToLower(vmis[c][i].phase)}))
         /\ \A i \in DOMAIN vmis[c] :
              Cardinality({m \in PhaseSamples(c) :
                             m.values[2] = ToLower(vmis[c][i].phase)}) = 1

\* a cycle has returned after emitting a phase sample that counts two VMIs
C17_Witness ==
  \E c \in Cycles :
    /\ pc[c] = "done"
    /\ \E m \in PhaseSamples(c) : m.value = 2

\* cycle c has emitted the version sample and nothing else, has built no
\* socket map, resolved no socket, run no scheduler and no task
OnlyVersion(c) ==
  /\ BagCardinality(ch[c]) = 1
  /\ \E m \in BagToSet(ch[c]) : m.name = "kubevirt_info"
  /\ PhaseSamples(c) = {}
  /\ socketToVMIs[c] = <<>>
  /\ calls[c].resolved = {}
  /\ tasks[c] = <<>>
  /\ sched[c].result = ""

\* C18: when the directory query returns an error the cycle returns without
\* building a socket map, without running the scheduler or a scrape task and
\* without a phase sample; its only sample is the version sample.
C18_DirectoryFailure ==
  \A c \in Cycles : calls[c].listed = "err" => pc[c] = "done" /\ OnlyVersion(c)

\* a cycle whose directory query failed has returned and its channel has been
\* closed
C18_Witness == \E c \in Cycles : calls[c].listed = "err" /\ pc[c] = "done" /\ closed[c]

\* C19: when the directory query succeeds with an empty list the cycle
\* returns right after the version sample: one sample, no socket resolution,
\* no scheduler run, no phase sample.
C19_EmptyNode ==
  \A c \in Cycles :
    (calls[c].listed = "ok" /\ vmis[c] = <<>>) => pc[c] = "done" /\ OnlyVersion(c)

\* a cycle that listed no VMI has returned and its channel has been closed
C19_Witness ==
  \E c \in Cycles : calls[c].listed = "ok" /\ vmis[c] = <<>> /\ pc[c] = "done" /\ closed[c]

\* the sample a Collect invocation running alone delivers for the emit
\* instruction ins of vmi, the metadata keys taken in the orders lo and ao
AloneSample(ins, vmi, lo, ao) ==
  NewConstMetric(NewDesc(FqName(ins.desc), ExpectedNames(LabelVarOf(ins.desc), lo, ao)),
                 ins.kind, ins.value,
                 ins.base \o [i \in DOMAIN lo |-> vmi.labels[lo[i]]]
                          \o [i \in DOMAIN ao |-> vmi.annotations[ao[i]]])

\* the samples a Collect invocation running alone delivers for vmi
AloneSamples(vmi, vmStats) ==
  LET prog == ReportProgram(vmi, vmStats)
  IN {AloneSample(prog[k], vmi, lo, ao) :
        k \in {j \in DOMAIN prog : prog[j].op = "emit"},
        lo \in Orders(DOMAIN vmi.labels), ao \in Orders(DOMAIN vmi.annotations)}

\* C20: of two Collect invocations running at the same time on the same
\* directory contents and statistics, each delivers to its own channel, for
\* every VMI it scraped to the end, exactly the samples (names, label names,
\* label values, values) that an invocation running alone delivers.
C20_CyclesIndependent ==
  \A c \in Cycles :
    (pc[c] = "done" /\ sched[c].result = "completed") =>
      \A s \in Sockets(c) :
        tasks[c][s].outcome = "reported" =>
          LET vmi == socketToVMIs[c][s]
          IN /\ SamplesOf(c, vmi) \subseteq AloneSamples(vmi, tasks[c][s].stats)
             /\ Delivered(c, s) = Emits(c, s)

\* C21: a fetch that returns no error but no statistics record (exists false)
\* or a record with an empty name ends the task normally as "gone": the task
\* is done with its client closed once, it has delivered no sample, it goes
\* on to Report only with a named record, and the step in which it ends
\* changes nothing of the cycle, of the channel, of the shared descriptors or
\* of another task.
C21_MidTeardown ==
  /\ [](/\ \A r \in FetchResults \cup FamilyResults : \A e \in 0..ClockCap :
             (~r.err /\ (~r.exists \/ r.stats.Name = "")) => AfterFetch(r, e) = "gone"
        /\ \A c \in Cycles : \A s \in Sockets(c) :
             tasks[c][s].outcome = "gone" =>
               /\ tasks[c][s].pc = "done"
               /\ tasks[c][s].cli = "closed"
               /\ tasks[c][s].closes = 1
               /\ Delivered(c, s) = 0)
  /\ [][\A c \in Cycles : \A s \in Sockets(c) :
          (tasks[c][s].pc = "fetch" /\ tasks'[c][s].pc = "report") =>
            tasks'[c][s].stats.Name # ""]_vars
  /\ [][\A c \in Cycles : \A s \in Sockets(c) :
          (tasks[c][s].outcome # "gone" /\ tasks'[c][s].outcome = "gone") =>
            /\ tasks[c][s].pc = "fetch"
            /\ UNCHANGED <<ch, pkgLabels, pkgDescs, pc, sched, closed>>
            /\ \A t \in Sockets(c) \ {s} : tasks'[c][t] = tasks[c][t]]_vars

\* one task found its VM gone, the other reported its samples, and the cycle
\* returned with the phase samples
C21_Witness ==
  \E c \in Cycles : \E s, t \in Sockets(c) :
    /\ tasks[c][s].outcome = "gone"
    /\ tasks[c][t].outcome = "reported"
    /\ Delivered(c, t) > 0
    /\ pc[c] = "done"
    /\ PhaseSamples(c) # {}

\* C22: a task that got its slot only when the deadline had already elapsed
\* and whose statistics returned more than the staleness margin after that,
\* that is later than deadline + margin after the scheduler began, delivers
\* no sample.
C22_DeadlineBudget ==
  \A c \in Cycles : \A s \in Sockets(c) :
    tasks[c][s].overdue => Delivered(c, s) = 0

\* the version samples received by the channel of cycle c
VersionSamples(c) == {m \in BagToSet(ch[c]) : m.name = versionDesc.fqName}

\* C23: a cycle that has been entered has emitted exactly one version sample,
\* of value 1, and it was the first sample on its channel, sent before the
\* directory was queried; a phase sample is sent only once the scheduler has
\* returned; the directory is queried before any socket is resolved, and the
\* socket map is built before the scheduler runs a task.
C23_CycleOrder ==
  /\ [](\A c \in Cycles :
          /\ pc[c] = "idle" => ch[c] = EmptyBag
          /\ pc[c] # "idle" =>
               /\ Copies(ch[c], VersionSamples(c)) = 1
               /\ \A m \in VersionSamples(c) : m.value = 1
          /\ PhaseSamples(c) # {} => sched[c].result # ""
          /\ calls[c].resolved # {} => calls[c].listed = "ok"
          /\ tasks[c] # <<>> => calls[c].resolved = DOMAIN vmis[c] /\ vmis[c] # <<>>)
  /\ [][\A c \in Cycles :
          /\ (ch[c] = EmptyBag /\ ch'[c] # EmptyBag) =>
               /\ ch'[c] = SetToBag({updateVersion})
               /\ calls[c].listed = ""
          /\ calls'[c].listed # calls[c].listed =>
               /\ VersionSamples(c) # {}
               /\ calls[c].resolved = {}
               /\ tasks[c] = <<>>
          /\ calls'[c].resolved # calls[c].resolved =>
               /\ calls[c].listed = "ok"
               /\ tasks[c] = <<>>
               /\ sched[c].result = ""
          /\ PhaseSamples(c)' # PhaseSamples(c) =>
               /\ sched[c].result \in {"completed", "timeout"}
               /\ pc'[c] = "done"]_vars

\* a cycle has returned with its version sample, the samples of a task and a
\* phase sample
C23_Witness ==
  \E c \in Cycles :
    /\ pc[c] = "done"
    /\ Copies(ch[c], VersionSamples(c)) = 1
    /\ PhaseSamples(c) # {}
    /\ \E s \in Sockets(c) : tasks[c][s].outcome = "reported" /\ Delivered(c, s) > 0

\* two metadata label keys of vmi, or two of its annotation keys, are given
\* the same label name: NewDesc then returns a descriptor with an error and
\* NewConstMetric fails on it
DuplicateNames(vmi) ==
  \/ \E j, k \in DOMAIN vmi.labels : j # k /\ labelFormatter(j) = labelFormatter(k)
  \/ \E j, k \in DOMAIN vmi.annotations : j # k /\ labelFormatter(j) = labelFormatter(k)

\* how many vCPU samples the channel of cycle c has received for the vCPU at
\* position k of the statistics of the task on socket s
VcpuSamples(c, s, k) ==
  Copies(ch[c], {m \in FamilySamples(c, socketToVMIs[c][s], "vcpuUsageDesc") :
                   HasLabel(m, "id", ToString(k - 1))})

EmitsOf(prog) == {k \in DOMAIN prog : prog[k].op = "emit"}

\* the sample of the emit instruction ins of vmi is sent when the update
\* function builds its descriptor and label values from vmi's own metadata
SentAlone(vmi, ins) ==
  \E lo \in Orders(DOMAIN vmi.labels), ao \in Orders(DOMAIN vmi.annotations) :
    tryToPushMetric(NewDesc(FqName(ins.desc),
                            BaseLabels(LabelVarOf(ins.desc)) \o DynamicNames(lo, ao)),
                    LocalLabelValues(ins, DynamicValues(vmi, lo, ao))) = "send"

\* how many samples a pass of an update function over one device, with the
\* instructions prog, sends for vmi
SentByPass(vmi, prog) == Cardinality({k \in EmitsOf(prog) : SentAlone(vmi, prog[k])})

\* how many samples of the families descs the channel of cycle c has received
\* for vmi with the device name dev
NamedSamples(c, vmi, descs, dev) ==
  Copies(ch[c], {m \in SamplesOf(c, vmi) :
                   m.name \in {FqName(d) : d \in descs} /\ m.values[4] = dev})

\* C25: a task scrape that ran Report to its end has delivered no sample for
\* a block device or a network interface whose name flag is not set, whatever
\* counters it has set, and for every other device or interface of the same
\* statistics exactly the samples that the pass over that device sends.
C25_UnnamedDevice ==
  \A c \in Cycles : \A s \in Sockets(c) :
    tasks[c][s].outcome = "reported" =>
      LET vmi == socketToVMIs[c][s]
          st == tasks[c][s].stats
      IN /\ \A k \in DOMAIN st.Block :
              NamedSamples(c, vmi, GroupDescs("block"), st.Block[k].Name) =
                IF st.Block[k].NameSet
                THEN SentByPass(vmi, updateBlockOne(vmi, st.Block[k]))
                ELSE 0
         /\ \A k \in DOMAIN st.Net :
              NamedSamples(c, vmi, GroupDescs("net"), st.Net[k].Name) =
                IF st.Net[k].NameSet
                THEN SentByPass(vmi, updateNetworkOne(vmi, st.Net[k]))
                ELSE 0

\* the first block device and the first interface, all counters set but no
\* name, yielded nothing; the second ones, named, yielded their six samples
C25_Witness ==
  \E c \in Cycles : \E s \in Sockets(c) :
    LET vmi == socketToVMIs[c][s]
        st == tasks[c][s].stats
    IN /\ tasks[c][s].outcome = "reported"
       /\ Len(st.Block) = 2 /\ Len(st.Net) = 2
       /\ ~st.Block[1].NameSet /\ st.Block[1].RdReqsSet
       /\ ~st.Net[1].NameSet /\ st.Net[1].RxBytesSet
       /\ NamedSamples(c, vmi, GroupDescs("block"), st.Block[1].Name) = 0
       /\ NamedSamples(c, vmi, GroupDescs("net"), st.Net[1].Name) = 0
       /\ NamedSamples(c, vmi, GroupDescs("block"), st.Block[2].Name) = 6
       /\ NamedSamples(c, vmi, GroupDescs("net"), st.Net[2].Name) = 6

\* the descriptor variable of the metric family named fq
DescVarOf(fq) == CHOOSE d \in DescVars : FqName(d) = fq

\* C26: whatever the interleaving of the tasks of a cycle, every sample
\* delivered for a VMI carries the label names of that VMI's own metadata,
\* and a task that ran Report to its end has delivered every sample its
\* statistics call for: none was dropped for a descriptor whose label count
\* differs from the number of label values.
C26_InterleavingEffect ==
  \A c \in Cycles : \A s \in Sockets(c) :
    LET vmi == socketToVMIs[c][s]
    IN /\ \A m \in SamplesOf(c, vmi) :
            SeqToSet(m.labels) = OwnLabelNames(vmi, LabelVarOf(DescVarOf(m.name)))
       /\ tasks[c][s].outcome = "reported" => Delivered(c, s) = Emits(c, s)

\* C27: the label names of every descriptor the update functions build are
\* pairwise distinct: two distinct metadata label keys of a VMI, and two
\* distinct annotation keys, are never given the same label name, so each
\* key stays a label of its own.
C27_DistinctLabelNames ==
  \A d \in DescVars :
    \A i, j \in DOMAIN pkgDescs[d].variableLabels :
      i # j => pkgDescs[d].variableLabels[i] # pkgDescs[d].variableLabels[j]

\* the ways a task ends after its client connected
ConnectedOutcomes == {"fetchErr", "gone", "stale", "reported", "panicked"}

\* C28: a task that has ended after a successful connect has closed its
\* client exactly once, whether it ended on a fetch error, on missing
\* statistics, on a stale result, after its report or in a report that failed
\* on the closed channel; a task whose connect failed has closed nothing and
\* fetched nothing; a client is open exactly while its task fetches or
\* reports, and it is closed in the step in which the task ends.
C28_ClientLifecycle ==
  /\ [](\A c \in Cycles : \A s \in Sockets(c) :
          LET t == tasks[c][s]
          IN CASE t.pc \in {"queued", "scrape"} ->
                    t.cli = "none" /\ t.closes = 0 /\ t.fetches = 0
               [] t.pc \in {"fetch", "report"} ->
                    t.cli = "open" /\ t.closes = 0 /\ t.fetches = 1
               [] t.pc = "done" ->
                    IF t.outcome = "connectErr"
                    THEN t.cli = "none" /\ t.closes = 0 /\ t.fetches = 0
                    ELSE /\ t.outcome \in ConnectedOutcomes
                         /\ t.cli = "closed" /\ t.closes = 1 /\ t.fetches = 1)
  /\ [][\A c \in Cycles : \A s \in Sockets(c) :
          (s \in DOMAIN tasks'[c] /\ tasks'[c][s].closes # tasks[c][s].closes) =>
            /\ tasks[c][s].cli = "open"
            /\ tasks'[c][s].closes = tasks[c][s].closes + 1
            /\ tasks'[c][s].pc = "done"]_vars

\* one task ended in a report that failed on the closed channel, with its
\* client closed once, and the other failed to connect
C28_Witness ==
  \E c \in Cycles : \E s, t \in Sockets(c) :
    /\ tasks[c][s].outcome = "panicked"
    /\ tasks[c][s].closes = 1
    /\ tasks[c][t].outcome = "connectErr"
    /\ tasks[c][t].closes = 0

\* Collector.Describe: the descriptors it sends, in order
Describe ==
  <<versionDesc,
    pkgDescs["storageIopsDesc"],
    pkgDescs["storageTrafficDesc"],
    pkgDescs["storageTimesDesc"],
    pkgDescs["vcpuUsageDesc"],
    pkgDescs["networkTrafficBytesDesc"],
    pkgDescs["networkTrafficPktsDesc"],
    pkgDescs["networkErrorsDesc"],
    pkgDescs["memoryAvailableDesc"],
    pkgDescs["memoryResidentDesc"]>>

\* the metric families Describe announces
Described == {Describe[i].fqName : i \in DOMAIN Describe}

\* C29: every sample Collect has sent belongs to a metric family whose
\* descriptor Describe sends.
C29_DescribeComplete ==
  \A c \in Cycles : \A m \in BagToSet(ch[c]) : m.name \in Described

\* the sum of the values of the samples in S, each counted as often as the
\* bag B holds it
RECURSIVE SumOfValues(_, _)
SumOfValues(B, S) ==
  IF S = {} THEN 0
  ELSE LET m == CHOOSE x \in S : TRUE
       IN m.value * CopiesIn(m, B) + SumOfValues(B, S \ {m})

\* C30: for a non-empty list of N VMIs the values of the phase samples of a
\* cycle that has returned sum to N, whatever the scrape phase did: an empty
\* socket map, tasks that all failed or were stale, or a scheduler that
\* returned on the deadline with tasks still running.
C30_PhaseSum ==
  \A c \in Cycles :
    (pc[c] = "done" /\ vmis[c] # <<>>) =>
      SumOfValues(ch[c], PhaseSamples(c)) = Len(vmis[c])

\* two VMIs were listed, the scheduler returned on the deadline with one task
\* still fetching and the other failed, and the phase samples sum to two
C30_Witness ==
  \E c \in Cycles : \E s, t \in Sockets(c) :
    /\ pc[c] = "done"
    /\ Len(vmis[c]) = 2
    /\ sched[c].result = "timeout"
    /\ tasks[c][s].pc = "fetch"
    /\ TaskFailed(tasks[c][t])
    /\ SumOfValues(ch[c], PhaseSamples(c)) = 2

=============================================================================
